---- MODULE Spec2Model ----
(***************************************************************************)
(* Model of pkg/output/output.go: the StandardWriter that formats one scan *)
(* result (text or JSON), writes it to standard output and mirrors an      *)
(* escape-stripped copy to an optional output file, under outputMutex.     *)
(*                                                                         *)
(* A byte string is a sequence of tokens.  A token is a string of one      *)
(* character and stands for that byte, except ESC, which stands for the    *)
(* byte 0x1B, and the tokens of the JSON encoding that stand for the bytes *)
(* of a quoted key and its colon (JKey) or of true and false (JBool).      *)
(***************************************************************************)
EXTENDS Integers, Sequences, FiniteSets, TLC

\* ------------------------------------------------------------------ bounds
NumProcs == 2
MaxCalls == 2
MaxLen == 6
MaxNames == 2
MaxNameLen == 4

Procs == 1..NumProcs

\* ------------------------------------------------------------------- bytes
ESC == "ESC"
LF == "\n"

Digits == {"0", "1", "2", "3", "4", "5", "6", "7", "8", "9"}

Lower == <<"a", "b", "c", "d", "e", "f", "g", "h", "i", "j", "k", "l", "m",
           "n", "o", "p", "q", "r", "s", "t", "u", "v", "w", "x", "y", "z">>

Upper == <<"A", "B", "C", "D", "E", "F", "G", "H", "I", "J", "K", "L", "M",
           "N", "O", "P", "Q", "R", "S", "T", "U", "V", "W", "X", "Y", "Z">>

Letters == {Lower[i] : i \in DOMAIN Lower} \cup {Upper[i] : i \in DOMAIN Upper}

RECURSIVE Concat(_)
Concat(ss) == IF ss = <<>> THEN <<>> ELSE Head(ss) \o Concat(Tail(ss))

\* The permutations of a finite set: the orders a Go map iteration may take.
Perms(S) ==
    {s \in [1..Cardinality(S) -> S] : \A i, j \in DOMAIN s : i # j => s[i] # s[j]}

\* strings.ToUpper on the ASCII range
ToUpperByte(c) ==
    IF \E i \in DOMAIN Lower : Lower[i] = c
    THEN Upper[CHOOSE i \in DOMAIN Lower : Lower[i] = c]
    ELSE c

ToUpper(s) == [i \in DOMAIN s |-> ToUpperByte(s[i])]

\* strings.Join(elems, ",")
RECURSIVE Join(_)
Join(elems) ==
    IF elems = <<>> THEN <<>>
    ELSE IF Len(elems) = 1 THEN elems[1]
    ELSE elems[1] \o <<",">> \o Join(Tail(elems))

\* bytes.TrimSuffix(data, "\n"): drops one trailing newline, if there is one
TrimSuffix(data) ==
    IF Len(data) > 0 /\ data[Len(data)] = LF
    THEN SubSeq(data, 1, Len(data) - 1)
    ELSE data

\* ------------------------------------------------------- decolorizerRegex
\* The end of the maximal run of [0-9;] that starts at position j of b.
SkipParams(b, j) ==
    LET skip[k \in 1..(Len(b) + 1)] ==
            IF k <= Len(b) /\ b[k] \in Digits \cup {";"} THEN skip[k + 1] ELSE k
    IN  skip[j]

\* The length of the match of \x1B\[[0-9;]*[a-zA-Z] that starts at position i
\* of b, or 0 when none starts there.  The classes [0-9;] and [a-zA-Z] are
\* disjoint, so at most one match starts at i.
MatchLen(b, i) ==
    IF i + 1 <= Len(b) /\ b[i] = ESC /\ b[i + 1] = "["
    THEN LET j == SkipParams(b, i + 2)
         IN  IF j <= Len(b) /\ b[j] \in Letters THEN j - i + 1 ELSE 0
    ELSE 0

\* decolorizerRegex.ReplaceAll(b, ""): one pass from the left, each
\* non-overlapping match removed, the scan resuming after the match.
ReplaceAll(b) ==
    LET rest[i \in 1..(Len(b) + 1)] ==
            IF i > Len(b) THEN <<>>
            ELSE IF MatchLen(b, i) > 0 THEN rest[i + MatchLen(b, i)]
            ELSE <<b[i]>> \o rest[i + 1]
    IN  rest[1]

Decolorize(b) == ReplaceAll(b)

\* b contains a substring ESC '[' (digits or semicolons)* letter
HasEscape(b) == \E i \in DOMAIN b : MatchLen(b, i) > 0

\* ------------------------------------------------ uniqueNormalizeCertNames
\* strings.Replace(value, "*.", "", -1): one pass from the left, each
\* non-overlapping occurrence removed.
ReplaceWildcard(s) ==
    LET rest[i \in 1..(Len(s) + 1)] ==
            IF i > Len(s) THEN <<>>
            ELSE IF i + 1 <= Len(s) /\ s[i] = "*" /\ s[i + 1] = "."
                 THEN rest[i + 2]
                 ELSE <<s[i]>> \o rest[i + 1]
    IN  rest[1]

\* The keys of the map `unique`
UniqueSet(names) == {ReplaceWildcard(names[i]) : i \in DOMAIN names}

\* The slices uniqueNormalizeCertNames may return: the keys of the map in
\* any order (Go leaves the iteration order of a map unspecified).
UniqueNormalizeCertNames(names) == Perms(UniqueSet(names))

HasWildcard(s) == \E i \in 1..(Len(s) - 1) : s[i] = "*" /\ s[i + 1] = "."

\* ------------------------------------------------------------------ errors
\* An error is the sequence of its messages, outermost first; nil is empty.
Nil == <<>>

\* errors.Wrap(err, message) of github.com/pkg/errors: nil when err is nil
Wrap(err, message) == IF err = Nil THEN Nil ELSE <<message>> \o err

MarshalError == <<"marshal">>
FileError == <<"file write">>

\* -------------------------------------------------------------- formatting
\* aurora.<Colour>(s).String(): s between the colour's SGR sequence and the
\* reset sequence when colours are on, s itself when they are off.
Colorize(o, code, s) ==
    IF o.NoColor THEN s
    ELSE <<ESC, "[">> \o code \o <<"m">> \o s \o <<ESC, "[", "0", "m">>

Cyan(o, s) == Colorize(o, <<"3", "6">>, s)
BrightYellow(o, s) == Colorize(o, <<"9", "3">>, s)
Blue(o, s) == Colorize(o, <<"3", "4">>, s)
Green(o, s) == Colorize(o, <<"3", "2">>, s)
Red(o, s) == Colorize(o, <<"3", "1">>, s)
Yellow(o, s) == Colorize(o, <<"3", "3">>, s)
BrightMagenta(o, s) == Colorize(o, <<"9", "5">>, s)

Bracket(s) == <<" ", "[">> \o s \o <<"]">>

OutputPrefix(o, ev) ==
    IF o.RespOnly THEN <<>> ELSE ev.Host \o <<":">> \o ev.Port

\* The slice `names` of formatStandard
CertNames(o, ev) ==
    (IF o.SAN THEN ev.SubjectAN ELSE <<>>) \o (IF o.CN THEN <<ev.SubjectCN>> ELSE <<>>)

\* A name block whose lines are not terminated
NameLine_NoNewline(o, ev, name) ==
    IF o.RespOnly THEN name
    ELSE OutputPrefix(o, ev) \o <<" ", "[">> \o Cyan(o, name) \o <<"]">>

\* One line of the name block
NameLine(o, ev, name) ==
    IF o.RespOnly THEN name \o <<LF>>
    ELSE OutputPrefix(o, ev) \o <<" ", "[">> \o Cyan(o, name) \o <<"]", LF>>

NameBlock(o, ev, uniqueNames) ==
    Concat([i \in DOMAIN uniqueNames |-> NameLine(o, ev, uniqueNames[i])])

\* The value the switch on the hash name selects
HashValue(ev, hash) ==
    CASE hash = "md5" -> ev.MD5
      [] hash = "sha1" -> ev.SHA1
      [] hash = "sha256" -> ev.SHA256
      [] OTHER -> <<>>

\* o.Hash is the option already split at its commas (empty: option unset)
HashBlock(o, ev) ==
    Concat([i \in DOMAIN o.Hash |-> Bracket(BrightMagenta(o, HashValue(ev, o.Hash[i])))])

\* What formatStandard writes after the name block
Summary(o, ev) ==
    (IF ~o.SAN /\ ~o.CN THEN OutputPrefix(o, ev) ELSE <<>>)
    \o (IF o.SO /\ Len(ev.SubjectOrg) > 0
        THEN Bracket(BrightYellow(o, Join(ev.SubjectOrg))) ELSE <<>>)
    \o (IF o.TLSVersion THEN Bracket(Blue(o, ToUpper(ev.Version))) ELSE <<>>)
    \o (IF o.Cipher THEN Bracket(Green(o, ev.Cipher)) ELSE <<>>)
    \o (IF o.Expired /\ ev.Expired
        THEN Bracket(Red(o, <<"e", "x", "p", "i", "r", "e", "d">>)) ELSE <<>>)
    \o (IF o.SelfSigned /\ ev.SelfSigned
        THEN Bracket(Yellow(o, <<"s", "e", "l", "f", "-", "s", "i", "g", "n", "e", "d">>))
        ELSE <<>>)
    \o HashBlock(o, ev)

\* formatStandard, for one iteration order of the map of names
FormatStandard(o, ev, uniqueNames) == NameBlock(o, ev, uniqueNames) \o Summary(o, ev)

\* The byte strings formatStandard may return for ev
FormatStandardResults(o, ev) ==
    {FormatStandard(o, ev, u) : u \in UniqueNormalizeCertNames(CertNames(o, ev))}

\* ------------------------------------------------------------------- JSON
\* A key of the encoded object: the quoted key and the colon after it
JKey(name) == <<"\"" \o name \o "\":">>

\* The encoder's escaping of one byte of a string: control bytes, the quote
\* and the backslash never appear raw in the output.
JEscapeByte(c) ==
    CASE c = ESC -> <<"\\", "u", "0", "0", "1", "b">>
      [] c = LF -> <<"\\", "n">>
      [] c = "\"" -> <<"\\", "\"">>
      [] c = "\\" -> <<"\\", "\\">>
      [] OTHER -> <<c>>

JString(s) == <<"\"">> \o Concat([i \in DOMAIN s |-> JEscapeByte(s[i])]) \o <<"\"">>

RECURSIVE JElems(_)
JElems(ss) ==
    IF ss = <<>> THEN <<>>
    ELSE IF Len(ss) = 1 THEN JString(ss[1])
    ELSE JString(ss[1]) \o <<",">> \o JElems(Tail(ss))

JArray(ss) == <<"[">> \o JElems(ss) \o <<"]">>

JBool(b) == IF b THEN <<"true">> ELSE <<"false">>

\* jsoniter.Marshal(output) when it succeeds: one object, no newline in it
MarshalJSON(ev) ==
    <<"{">> \o JKey("host") \o JString(ev.Host)
    \o <<",">> \o JKey("port") \o JString(ev.Port)
    \o <<",">> \o JKey("tls_version") \o JString(ev.Version)
    \o <<",">> \o JKey("cipher") \o JString(ev.Cipher)
    \o <<",">> \o JKey("subject_an") \o JArray(ev.SubjectAN)
    \o <<",">> \o JKey("subject_cn") \o JString(ev.SubjectCN)
    \o <<",">> \o JKey("subject_org") \o JArray(ev.SubjectOrg)
    \o <<",">> \o JKey("expired") \o JBool(ev.Expired)
    \o <<",">> \o JKey("self_signed") \o JBool(ev.SelfSigned)
    \o <<",">> \o JKey("md5") \o JString(ev.MD5)
    \o <<",">> \o JKey("sha1") \o JString(ev.SHA1)
    \o <<",">> \o JKey("sha256") \o JString(ev.SHA256)
    \o <<"}">>

\* The (data, err) pairs formatJSON may return: the encoding, or the
\* encoder's error with no data.
FormatJSONResults(ev) ==
    {[data |-> MarshalJSON(ev), err |-> Nil], [data |-> <<>>, err |-> MarshalError]}

\* The (data, err) pairs of lines 61-65 of Write
FormatResults(o, ev) ==
    IF o.JSON THEN FormatJSONResults(ev)
    ELSE {[data |-> d, err |-> Nil] : d \in FormatStandardResults(o, ev)}

\* ------------------------------------------------------------------ inputs
Opt(json, noColor, respOnly, san, cn, so, ver, cipher, expired, selfSigned, hash, file) ==
    [JSON |-> json, NoColor |-> noColor, RespOnly |-> respOnly, SAN |-> san, CN |-> cn,
     SO |-> so, TLSVersion |-> ver, Cipher |-> cipher, Expired |-> expired,
     SelfSigned |-> selfSigned, Hash |-> hash, OutputFile |-> file]

\* The segments of the summary line that the options may switch on
SegmentChoices ==
    { [SO |-> FALSE, TLSVersion |-> FALSE, Cipher |-> FALSE, Expired |-> FALSE,
       SelfSigned |-> FALSE, Hash |-> <<>>],
      [SO |-> TRUE, TLSVersion |-> FALSE, Cipher |-> FALSE, Expired |-> FALSE,
       SelfSigned |-> TRUE, Hash |-> <<>>],
      [SO |-> FALSE, TLSVersion |-> TRUE, Cipher |-> TRUE, Expired |-> TRUE,
       SelfSigned |-> FALSE, Hash |-> <<"sha256", "md5">>],
      [SO |-> FALSE, TLSVersion |-> FALSE, Cipher |-> FALSE, Expired |-> FALSE,
       SelfSigned |-> FALSE, Hash |-> <<"sha1", "crc">>] }

\* The option sets of the sequential specification
AllOptions ==
    { Opt(FALSE, nc, ro, san, cn, g.SO, g.TLSVersion, g.Cipher, g.Expired,
          g.SelfSigned, g.Hash, f) :
        nc \in BOOLEAN, ro \in BOOLEAN, san \in BOOLEAN, cn \in BOOLEAN,
        g \in SegmentChoices, f \in BOOLEAN }
    \cup
    { Opt(TRUE, nc, FALSE, FALSE, FALSE, FALSE, FALSE, FALSE, FALSE, FALSE, <<>>, f) :
        nc \in BOOLEAN, f \in BOOLEAN }

\* The option sets of the concurrent specification
FewOptions ==
    { Opt(FALSE, FALSE, FALSE, TRUE, TRUE, FALSE, FALSE, TRUE, FALSE, FALSE, <<>>, TRUE),
      Opt(TRUE, TRUE, FALSE, FALSE, FALSE, FALSE, FALSE, FALSE, FALSE, FALSE, <<>>, TRUE),
      Opt(FALSE, TRUE, TRUE, FALSE, TRUE, FALSE, FALSE, FALSE, FALSE, FALSE, <<>>, FALSE) }

Event(host, port, ver, cipher, san, cn, org, expired, selfSigned) ==
    [Host |-> host, Port |-> port, Version |-> ver, Cipher |-> cipher,
     SubjectAN |-> san, SubjectCN |-> cn, SubjectOrg |-> org,
     Expired |-> expired, SelfSigned |-> selfSigned,
     MD5 |-> <<"5">>, SHA1 |-> <<"1">>, SHA256 |-> <<"2">>]

\* One name after normalization, an expired certificate
EvPlain ==
    Event(<<"h">>, <<"4">>, <<"t", "1">>, <<"c">>, <<<<"*", ".", "a">>>>, <<"a">>,
          << <<"o", "p">> >>, TRUE, FALSE)

\* Two distinct names, a self-signed certificate, two organizations
EvTwoNames ==
    Event(<<"g">>, <<"8">>, <<"t">>, <<"d">>, <<<<"b">>>>, <<"a">>,
          << <<"o">>, <<"q">> >>, FALSE, TRUE)

\* An empty common name beside a subject alternative name
EvEmptyCN ==
    Event(<<"h">>, <<"4">>, <<"t">>, <<"c">>, <<<<"a">>>>, <<>>, <<>>, FALSE, FALSE)

\* A host name that holds one escape sequence inside the bytes of another
EvNested ==
    Event(<<ESC, "[", ESC, "[", "0", "m", "0", "m">>, <<"4">>, <<"t">>, <<"c">>,
          <<>>, <<"a">>, <<>>, FALSE, FALSE)

AllEvents == {EvPlain, EvTwoNames, EvEmptyCN, EvNested}

FewEvents == {EvPlain, EvTwoNames}

\* ------------------------------------------------------------------- state
VARIABLES
    options,    \* w.options, w.json, w.aurora and w.outputFile # nil
    events,     \* the results the producers may submit
    active,     \* the producers
    mutex,      \* w.outputMutex: its holder, 0 when free
    stdout,     \* os.Stdout: the writes it received, each tagged with its call
    file,       \* the output file: the writes it received, each tagged
    pc,         \* each producer's position in Write
    cur,        \* each producer's call: its id, event, data, err, return value, and
                \* what happened in it (lock taken, file write failed or done)
    returned,   \* the calls that returned, in the order they returned
    started,    \* the number of calls so far
    arg,        \* the input of the pure-function specifications
    res         \* their results

vars == <<options, events, active, mutex, stdout, file, pc, cur, returned, started, arg, res>>

NoEvent == Event(<<>>, <<>>, <<>>, <<>>, <<>>, <<>>, <<>>, FALSE, FALSE)

NoCall == [id |-> 0, ev |-> NoEvent, data |-> <<>>, fmtErr |-> Nil, ret |-> Nil,
           locked |-> FALSE, fileFailed |-> FALSE, fileOK |-> FALSE]

InitWriter ==
    /\ mutex = 0
    /\ stdout = <<>>
    /\ file = <<>>
    /\ pc = [p \in Procs |-> "idle"]
    /\ cur = [p \in Procs |-> NoCall]
    /\ returned = <<>>
    /\ started = 0

Init ==
    /\ options \in FewOptions
    /\ events = FewEvents
    /\ active = Procs
    /\ InitWriter
    /\ arg = <<>>
    /\ res = <<>>

\* --------------------------------------------------- StandardWriter.Write
\* A Write that never tests the formatter's error
FormatFailed_Never(r) == FALSE

\* Line 66: the formatter reported an error
FormatFailed(r) == r.err # Nil

\* Lines 57-69: the call, the formatting and the early return or the trim
WriteFormat(p) ==
    /\ pc[p] = "idle"
    /\ p \in active
    /\ started < MaxCalls
    /\ \E ev \in events : \E r \in FormatResults(options, ev) :
         IF FormatFailed(r)
         THEN /\ returned' = Append(returned,
                    [id |-> started + 1, ev |-> ev, data |-> <<>>, fmtErr |-> r.err,
                     ret |-> Wrap(r.err, "could not format output"),
                     locked |-> FALSE, fileFailed |-> FALSE, fileOK |-> FALSE])
              /\ UNCHANGED <<pc, cur>>
         ELSE /\ cur' = [cur EXCEPT ![p] =
                    [id |-> started + 1, ev |-> ev, data |-> TrimSuffix(r.data),
                     fmtErr |-> r.err, ret |-> Nil, locked |-> FALSE,
                     fileFailed |-> FALSE, fileOK |-> FALSE]]
              /\ pc' = [pc EXCEPT ![p] = "lock"]
              /\ UNCHANGED returned
    /\ started' = started + 1
    /\ UNCHANGED <<options, events, active, mutex, stdout, file, arg, res>>

\* A Lock that does not wait for the mutex to be free
Lock_NoWait(p) ==
    /\ pc[p] = "lock"
    /\ mutex' = p
    /\ cur' = [cur EXCEPT ![p].locked = TRUE]
    /\ pc' = [pc EXCEPT ![p] = "stdoutData"]
    /\ UNCHANGED <<options, events, active, stdout, file, returned, started, arg, res>>

\* Line 71: w.outputMutex.Lock()
Lock(p) ==
    /\ pc[p] = "lock"
    /\ mutex = 0
    /\ mutex' = p
    /\ cur' = [cur EXCEPT ![p].locked = TRUE]
    /\ pc' = [pc EXCEPT ![p] = "stdoutData"]
    /\ UNCHANGED <<options, events, active, stdout, file, returned, started, arg, res>>

\* Line 74: os.Stdout.Write(data); its result is discarded
StdoutData(p) ==
    /\ pc[p] = "stdoutData"
    /\ stdout' = Append(stdout, [id |-> cur[p].id, bytes |-> cur[p].data])
    /\ pc' = [pc EXCEPT ![p] = "stdoutNewline"]
    /\ UNCHANGED <<options, events, active, mutex, file, cur, returned, started, arg, res>>

\* A Write that unlocks once standard output is written, before the file
StdoutNewline_Unlock(p) ==
    /\ pc[p] = "stdoutNewline"
    /\ stdout' = Append(stdout, [id |-> cur[p].id, bytes |-> <<LF>>])
    /\ mutex' = 0
    /\ pc' = [pc EXCEPT ![p] = IF options.OutputFile THEN "file" ELSE "return"]
    /\ UNCHANGED <<options, events, active, file, cur, returned, started, arg, res>>

\* Lines 75-76: os.Stdout.Write("\n"), then the test of w.outputFile
StdoutNewline(p) ==
    /\ pc[p] = "stdoutNewline"
    /\ stdout' = Append(stdout, [id |-> cur[p].id, bytes |-> <<LF>>])
    /\ pc' = [pc EXCEPT ![p] = IF options.OutputFile THEN "file" ELSE "return"]
    /\ UNCHANGED <<options, events, active, mutex, file, cur, returned, started, arg, res>>

\* fileWriter.Write(data): the bytes and one line terminator appended to the
\* file, or an error and nothing appended
FileSinkWrite(f, id, data, ok) ==
    IF ok THEN Append(f, [id |-> id, bytes |-> data \o <<LF>>]) ELSE f

\* Lines 77-79: the copy for the file
FileData(o, data) == IF ~o.JSON THEN Decolorize(data) ELSE data

\* Line 80: writeErr, the error w.outputFile.Write returns, nil or not
FileSinkError(ok) == IF ok THEN Nil ELSE FileError

\* Lines 76-84: the write to the file and the value Write returns.  The
\* error wrapped at line 81 is err, the formatter's (nil on this path), not
\* writeErr.
FileWrite(p) ==
    /\ pc[p] = "file"
    /\ \E ok \in BOOLEAN :
         LET data == FileData(options, cur[p].data)
             writeErr == FileSinkError(ok)
         IN  /\ file' = FileSinkWrite(file, cur[p].id, data, ok)
             /\ cur' = [cur EXCEPT ![p].data = data,
                                   ![p].fileFailed = (writeErr # Nil),
                                   ![p].fileOK = (writeErr = Nil),
                                   ![p].ret = IF writeErr # Nil
                                              THEN Wrap(cur[p].fmtErr,
                                                        "could not write to output")
                                              ELSE Nil]
    /\ pc' = [pc EXCEPT ![p] = "return"]
    /\ UNCHANGED <<options, events, active, mutex, stdout, returned, started, arg, res>>

\* An unlock written before the final return only, not deferred: the return
\* after a failed file write leaves the mutex held
Unlock_OnSuccessOnly(p, m) == IF cur[p].fileFailed THEN m ELSE 0

\* Line 72: the deferred w.outputMutex.Unlock(): the mutex after it
Unlock(p, m) == 0

\* Lines 82 and 84: the return, which runs the deferred unlock
Return(p) ==
    /\ pc[p] = "return"
    /\ mutex' = Unlock(p, mutex)
    /\ returned' = Append(returned, cur[p])
    /\ cur' = [cur EXCEPT ![p] = NoCall]
    /\ pc' = [pc EXCEPT ![p] = "idle"]
    /\ UNCHANGED <<options, events, active, stdout, file, started, arg, res>>

Step(p) ==
    \/ WriteFormat(p)
    \/ Lock(p)
    \/ StdoutData(p)
    \/ StdoutNewline(p)
    \/ FileWrite(p)
    \/ Return(p)

Next == \E p \in Procs : Step(p)

\* Concurrent producers, a few option sets and events
Spec == Init /\ [][Next]_vars

\* One producer, every option set and every event
InitSequential ==
    /\ options \in AllOptions
    /\ events = AllEvents
    /\ active = {1}
    /\ InitWriter
    /\ arg = <<>>
    /\ res = <<>>

SpecSequential == InitSequential /\ [][Next]_vars

\* Go's scheduler runs every runnable goroutine, and a goroutine waiting in
\* Lock gets the mutex (sync.Mutex hands it over to a starving waiter);
\* nothing obliges a producer to call Write.
Fairness ==
    \A p \in Procs :
        /\ SF_vars(Lock(p))
        /\ WF_vars(StdoutData(p) \/ StdoutNewline(p) \/ FileWrite(p) \/ Return(p))

FairSpec == Spec /\ Fairness

\* ------------------------------------------- the stripper, on its own
StripAlphabet == {ESC, "[", "0", "m", "."}

BytesUpTo(alphabet, n) == UNION {[1..k -> alphabet] : k \in 0..n}

NoWriter ==
    /\ options = Opt(FALSE, FALSE, FALSE, FALSE, FALSE, FALSE, FALSE, FALSE, FALSE, FALSE,
                     <<>>, FALSE)
    /\ events = {}
    /\ active = {}
    /\ InitWriter

InitStrip ==
    /\ NoWriter
    /\ arg \in BytesUpTo(StripAlphabet, MaxLen)
    /\ res = <<>>

\* res[1] is the stripped input, res[2] the stripped res[1]
StripStep ==
    /\ Len(res) < 2
    /\ res' = Append(res, Decolorize(IF res = <<>> THEN arg ELSE res[Len(res)]))
    /\ UNCHANGED <<options, events, active, mutex, stdout, file, pc, cur, returned,
                   started, arg>>

SpecStrip == InitStrip /\ [][StripStep]_vars

\* ------------------------------------ the name normalizer, on its own
NameAlphabet == {"*", ".", "a"}

InitNames ==
    /\ NoWriter
    /\ arg \in UNION {[1..k -> BytesUpTo(NameAlphabet, MaxNameLen)] : k \in 0..MaxNames}
    /\ res = <<>>

\* res[1] is one slice uniqueNormalizeCertNames may return for arg
NamesStep ==
    /\ res = <<>>
    /\ \E u \in UniqueNormalizeCertNames(arg) : res' = <<u>>
    /\ UNCHANGED <<options, events, active, mutex, stdout, file, pc, cur, returned,
                   started, arg>>

SpecNames == InitNames /\ [][NamesStep]_vars

\* ================================================================= claims
NewlineCount(b) == Cardinality({i \in DOMAIN b : b[i] = LF})

\* The bytes a sink holds
Flatten(sink) == Concat([i \in DOMAIN sink |-> sink[i].bytes])

\* The bytes of call id in a sink
RecordBytes(sink, id) ==
    LET Mine(c) == c.id = id IN Flatten(SelectSeq(sink, Mine))

\* The calls in the order their first bytes appear in a sink
RECURSIVE RecordOrder(_)
RecordOrder(sink) ==
    IF sink = <<>> THEN <<>>
    ELSE LET front == RecordOrder(SubSeq(sink, 1, Len(sink) - 1))
             id == sink[Len(sink)].id
         IN  IF \E i \in DOMAIN front : front[i] = id THEN front ELSE Append(front, id)

IdsIn(sink) == {sink[i].id : i \in DOMAIN sink}

AllIdle == \A p \in Procs : pc[p] = "idle"

\* The calls made so far: those that returned and those in progress
Calls == {returned[i] : i \in DOMAIN returned} \cup {cur[p] : p \in {q \in Procs : pc[q] # "idle"}}

CallOf(id) == CHOOSE c \in Calls : c.id = id

\* C1: whenever the file sink is configured and its write of a record fails,
\* Write returns a non-nil error for that record.
C1_WriteErrorSurfaced ==
    \A i \in DOMAIN returned : returned[i].fileFailed => returned[i].ret # Nil

\* C2: under any interleaving of concurrent producers, the bytes of one record
\* and its line terminator are contiguous in standard output (the data, then
\* the terminator, nothing of another record between them) and in the file
\* (one whole terminated record), and the records of the file are in the order
\* they have in standard output.
C2_ContiguousSameOrder ==
    /\ \A i, j, k \in DOMAIN stdout :
          (i < j /\ j < k /\ stdout[i].id = stdout[k].id) => stdout[j].id = stdout[i].id
    /\ \A i \in DOMAIN stdout :
          (i + 1 \in DOMAIN stdout /\ stdout[i + 1].id # stdout[i].id)
             => (i > 1 /\ stdout[i - 1].id = stdout[i].id /\ stdout[i].bytes = <<LF>>)
    /\ \A i, j \in DOMAIN file : i # j => file[i].id # file[j].id
    /\ \A i \in DOMAIN file : file[i].bytes[Len(file[i].bytes)] = LF
    /\ LET InFile(id) == id \in IdsIn(file)
       IN  SelectSeq(RecordOrder(stdout), InFile) = RecordOrder(file)

\* Two producers' records are in both sinks, and the call that started second
\* was written first.
C2_Witness ==
    /\ Len(file) >= 2
    /\ file[1].id > file[2].id
    /\ Len(stdout) >= 4

\* C3: in text mode the bytes Write hands to the file sink (data at line 80)
\* hold no escape sequence, whatever the fields of the record hold.
C3_FileHasNoEscape ==
    ~options.JSON =>
        \A c \in Calls : (c.fileOK \/ c.fileFailed) => ~HasEscape(c.data)

\* C4: the bytes a call writes to standard output end with exactly one line
\* terminator, never with two or more.
C4_OneTerminator ==
    \A i \in DOMAIN returned :
        returned[i].locked =>
            LET b == RecordBytes(stdout, returned[i].id)
            IN  /\ Len(b) >= 1
                /\ b[Len(b)] = LF
                /\ Len(b) >= 2 => b[Len(b) - 1] # LF

\* C5: no name that uniqueNormalizeCertNames returns contains "*.".
C5_NoWildcardLeft ==
    res # <<>> => \A i \in DOMAIN res[1] : ~HasWildcard(res[1][i])

\* C6: stripping a stripped byte string changes nothing.
C6_StripIdempotent ==
    Len(res) = 2 => res[2] = res[1]

\* C7, as stated: once the calls have returned, the file holds as many lines
\* as there were calls whose write to it succeeded.
C7_OneLinePerCall ==
    AllIdle => NewlineCount(Flatten(file))
                  = Cardinality({i \in DOMAIN returned : returned[i].fileOK})

\* The lines of one record: one per distinct normalized name, and one more
\* for the summary when it is not empty; one line when there is no name and
\* in JSON mode.
ExpectedLines(o, ev) ==
    IF o.JSON THEN 1
    ELSE LET k == Cardinality(UniqueSet(CertNames(o, ev)))
         IN  IF k = 0 THEN 1
             ELSE k + (IF Summary(o, ev) # <<>> THEN 1 ELSE 0)

\* C7, amended: the file holds exactly one record for each call whose write
\* to it succeeded, each ended by one appended terminator; a record is one
\* line in JSON mode and when no name is printed, and otherwise one line per
\* distinct normalized name, plus one for a summary that is not empty (the
\* fields hold no line terminator).
C7_OneRecordPerCall ==
    /\ IdsIn(file) = {c.id : c \in {d \in Calls : d.fileOK}}
    /\ Len(file) = Cardinality(IdsIn(file))
    /\ \A i \in DOMAIN file :
          NewlineCount(file[i].bytes) = ExpectedLines(options, CallOf(file[i].id).ev)
    /\ (options.JSON \/ (~options.SAN /\ ~options.CN))
          => NewlineCount(Flatten(file)) = Len(file)

\* Two calls returned with their records in the file, one of them of several
\* lines: the file holds more lines than records.
C7_Witness ==
    /\ AllIdle
    /\ Len(file) = 2
    /\ \E i \in DOMAIN file : NewlineCount(file[i].bytes) >= 2
    /\ \A i \in DOMAIN returned : returned[i].fileOK

\* C8: when the formatter fails, Write returns the wrapped error, writes no
\* byte of the record to either sink and never takes the lock.
C8_FormatErrorNoEffect ==
    \A c \in Calls :
        c.fmtErr # Nil =>
            /\ c \in {returned[i] : i \in DOMAIN returned}
            /\ c.ret = <<"could not format output">> \o c.fmtErr
            /\ c.id \notin IdsIn(stdout)
            /\ c.id \notin IdsIn(file)
            /\ ~c.locked

\* A call failed in the formatter while another call's record was written.
C8_Witness ==
    /\ \E i \in DOMAIN returned : returned[i].fmtErr # Nil
    /\ Len(file) >= 1
    /\ Len(stdout) >= 2

\* The part of Write from the end of the formatting to the end of the write
\* to the file
InFormatToFile(p) == pc[p] \in {"lock", "stdoutData", "stdoutNewline", "file"}

\* The part of Write that writes to the sinks
InWrites(p) == pc[p] \in {"stdoutData", "stdoutNewline", "file", "return"}

\* C9, as stated: no two calls are both between the start of their formatting
\* and the end of their write to the file.
C9_LockCoversFormatting ==
    \A p, q \in Procs : p # q => ~(InFormatToFile(p) /\ InFormatToFile(q))

\* C9, amended: the lock covers the two writes, not the formatting: no two
\* calls are both between the start of their write to standard output and
\* their return, the call that is there holds the mutex, and a call that has
\* formatted its record and waits for the lock does not.
C9_LockCoversWrites ==
    /\ \A p, q \in Procs : p # q => ~(InWrites(p) /\ InWrites(q))
    /\ \A p \in Procs : InWrites(p) <=> mutex = p
    /\ \A p \in Procs : pc[p] = "lock" => (~cur[p].locked /\ cur[p].id > 0)

\* One call writes to the file while another has formatted and waits.
C9_Witness ==
    \E p, q \in Procs : p # q /\ pc[p] = "file" /\ pc[q] = "lock"

\* C10: a call that took the lock has released it when it has returned, also
\* after a failed file write; every call that started returns.
C10_LockReleasedAndReturns ==
    /\ [](\A p \in Procs : pc[p] = "idle" => mutex # p)
    /\ \A p \in Procs : (pc[p] # "idle") ~> (pc[p] = "idle")

\* A call whose file write failed has returned, and another call holds the
\* mutex after it.
C10_Witness ==
    /\ \E i \in DOMAIN returned : returned[i].fileFailed
    /\ \E p \in Procs : mutex = p /\ pc[p] = "file"
====
